---- MODULE Spec2Model ----
(***************************************************************************)
(* trolleybus: a synchronous in-process publish/subscribe bus.             *)
(*                                                                         *)
(* The model follows src/trolleybus/bus.py (EventBus) and                  *)
(* src/trolleybus/subscriber.py (Subscriber).  One EventBus, at most one   *)
(* Subscriber instance bound to it, and a handful of user callbacks taken  *)
(* from src/tests/test_trolleybus.py.  Every public call of the bus is one *)
(* action; the handlers a dispatch invokes run inside that action, in the  *)
(* order of the sorted snapshot the code iterates over.                    *)
(***************************************************************************)
EXTENDS Integers, Sequences, FiniteSets, TLC

VARIABLES
    listeners,      \* EventBus.listeners: event id -> set of callbacks
    priorities,     \* EventBus._priorities: (event id, callback) -> int
    constructed,    \* a Subscriber has been constructed on the bus
    subscriptions,  \* Subscriber.__subscriptions: list of (event, member)
    call            \* the last public call: inputs, snapshot, outcome

vars == <<listeners, priorities, constructed, subscriptions, call>>

----------------------------------------------------------------------------
(* Bounds of the model.                                                    *)

\* most (event, callback) pairs user code keeps subscribed at one time
MaxRegistered == 2

\* most entries of Subscriber.__subscriptions (it only ever grows)
MaxSubscriptions == 6

----------------------------------------------------------------------------
(* Event types.  EventMeta gives every class a fresh uuid4 as event_id;    *)
(* the model uses the class name as the identifier.                        *)

OnStart == "OnStart"
OnStarted == "OnStarted"
OnExit == "OnExit"
TestEvent == "TestEvent"
TestEventOptional == "TestEventOptional"

\* a second event class that user code defines with the name of TestEvent
TestEventTwin == "TestEventTwin"

default_events == {OnStart, OnStarted, OnExit}

\* the class attribute "name" of an event class
EventName(event) ==
    CASE event = OnStart -> "on-start"
      [] event = OnStarted -> "on-stop"
      [] event = OnExit -> "on-exit"
      [] event = TestEventOptional -> "test-event-optional"
      [] OTHER -> "test-event"

\* Faulty variant of event_id: the name of the class serves as identifier.
event_id_as_name(event) == EventName(event)

\* The class attribute "event_id": EventMeta.__new__ draws a uuid4 for every
\* class it creates.  Two draws are taken to differ, so the identifier stands
\* for the class and the class for the identifier.
event_id(event) == event

Events == default_events \cup {TestEvent, TestEventOptional}

\* priority used when subscribe() is called without one
DefaultPriority == 50

\* priorities user code subscribes with (those of test_priority)
Priorities == {40, 60}

\* events user code subscribes plain functions to
SubscribedEvents == {OnStart, OnExit, TestEvent}

----------------------------------------------------------------------------
(* Python values: None, an int, or a raised exception.                     *)

None == [kind |-> "None", v |-> 0]
IntVal(n) == [kind |-> "int", v |-> n]
Exc(name) == [kind |-> name, v |-> 0]
IsError(x) == x.kind \notin {"None", "int"}

\* payloads callers dispatch with: None for the lifecycle events
\* (Event[None, None]), an int for the test events
PayloadsOf(event) ==
    IF event \in default_events THEN {None} ELSE {IntVal(0), IntVal(2)}

----------------------------------------------------------------------------
(* Callbacks.                                                              *)

\* plain functions subscribed by user code
UserHandlers == {"ident", "none", "raiser"}

\* the plain functions that fit an event's payload type: for the lifecycle
\* events (payload None) "ident" does what "none" does
UserHandlersOf(event) ==
    IF event \in default_events THEN {"none", "raiser"} ELSE UserHandlers

\* the two lifecycle methods a Subscriber subscribes in __init__
LifecycleMethods == {"on_start", "on_exit"}

\* methods of the Subscriber subclass that carry _subscriber_info, in the
\* order inspect.getmembers returns them (sorted by name)
DeclaredMembers ==
    << [member |-> "declared_exit",  event |-> OnExit,    priority |-> 60],
       [member |-> "declared_start", event |-> OnStart,   priority |-> 40],
       [member |-> "on_test_event",  event |-> TestEvent, priority |-> DefaultPriority] >>

DeclaredMethods == {DeclaredMembers[i].member : i \in 1..Len(DeclaredMembers)}

SubscriberMethods == LifecycleMethods \cup DeclaredMethods

Handlers == UserHandlers \cup SubscriberMethods

\* What a callback returns or raises for a payload.
HandlerResult(h, payload) ==
    CASE h = "ident" -> payload
      [] h = "on_test_event" ->
            IF payload.kind = "int" THEN IntVal(payload.v * 2) ELSE Exc("TypeError")
      [] h = "raiser" -> Exc("RuntimeError")
      [] OTHER -> None

----------------------------------------------------------------------------
(* Registry operations on a state record                                   *)
(*   st = [listeners, priorities, subscriptions].                          *)

\* dict assignment d[k] = v
DictSet(d, k, v) == [x \in (DOMAIN d) \cup {k} |-> IF x = k THEN v ELSE d[x]]

\* del d[k]
DictDel(d, k) == [x \in (DOMAIN d) \ {k} |-> d[x]]

\* Faulty variant of subscribe: the event's set is replaced by the callback
\* alone instead of gaining it.
subscribe_replace_bucket(st, event, callback, priority) ==
    [st EXCEPT
        !.listeners = DictSet(st.listeners, event_id(event), {callback}),
        !.priorities = DictSet(st.priorities, <<event_id(event), callback>>, priority)]

\* Faulty variant of subscribe: for an event id that is not yet a key the
\* bucket is created empty, and the priority recorded all the same.
subscribe_empty_new_bucket(st, event, callback, priority) ==
    LET callbacks == IF event_id(event) \in DOMAIN st.listeners
                     THEN st.listeners[event_id(event)] \cup {callback} ELSE {}
    IN  [st EXCEPT
            !.listeners = DictSet(st.listeners, event_id(event), callbacks),
            !.priorities = DictSet(st.priorities, <<event_id(event), callback>>, priority)]

\* Faulty variant of subscribe: the priority of a pair that is already
\* registered is kept.
subscribe_keep_first_priority(st, event, callback, priority) ==
    LET callbacks == IF event_id(event) \in DOMAIN st.listeners
                     THEN st.listeners[event_id(event)] ELSE {}
    IN  [st EXCEPT
            !.listeners = DictSet(st.listeners, event_id(event), callbacks \cup {callback}),
            !.priorities = IF <<event_id(event), callback>> \in DOMAIN st.priorities
                           THEN st.priorities
                           ELSE DictSet(st.priorities, <<event_id(event), callback>>, priority)]

\* EventBus.subscribe with a callback
subscribe(st, event, callback, priority) ==
    LET callbacks == IF event_id(event) \in DOMAIN st.listeners
                     THEN st.listeners[event_id(event)] ELSE {}
    IN  [st EXCEPT
            !.listeners = DictSet(st.listeners, event_id(event), callbacks \cup {callback}),
            !.priorities = DictSet(st.priorities, <<event_id(event), callback>>, priority)]

\* Faulty variant of unsubscribe: the priority record is left behind.
unsubscribe_keep_priority(st, event, callback) ==
    IF /\ event_id(event) \in DOMAIN st.listeners
       /\ st.listeners[event_id(event)] # {}
       /\ callback \in st.listeners[event_id(event)]
    THEN [st EXCEPT
            !.listeners = DictSet(st.listeners, event_id(event), st.listeners[event_id(event)] \ {callback})]
    ELSE st

\* Faulty variant of unsubscribe: an event's key is deleted with its last
\* callback.
unsubscribe_drop_empty(st, event, callback) ==
    IF /\ event_id(event) \in DOMAIN st.listeners
       /\ st.listeners[event_id(event)] # {}
       /\ callback \in st.listeners[event_id(event)]
    THEN [st EXCEPT
            !.listeners = IF st.listeners[event_id(event)] = {callback}
                          THEN DictDel(st.listeners, event_id(event))
                          ELSE DictSet(st.listeners, event_id(event),
                                       st.listeners[event_id(event)] \ {callback}),
            !.priorities = DictDel(st.priorities, <<event_id(event), callback>>)]
    ELSE st

\* EventBus.unsubscribe
unsubscribe(st, event, callback) ==
    IF /\ event_id(event) \in DOMAIN st.listeners
       /\ st.listeners[event_id(event)] # {}
       /\ callback \in st.listeners[event_id(event)]
    THEN [st EXCEPT
            !.listeners = DictSet(st.listeners, event_id(event), st.listeners[event_id(event)] \ {callback}),
            !.priorities = DictDel(st.priorities, <<event_id(event), callback>>)]
    ELSE st

\* EventBus.unsubscribe ends in KeyError when "del self._priorities[...]"
\* finds no priority for a callback that is in the event's set.
unsubscribe_raises(st, event, callback) ==
    /\ event_id(event) \in DOMAIN st.listeners
    /\ callback \in st.listeners[event_id(event)]
    /\ <<event_id(event), callback>> \notin DOMAIN st.priorities

\* Faulty variant of sorted: descending (reverse=True).
RECURSIVE sorted_descending(_)
sorted_descending(unsorted) ==
    IF unsorted = {} THEN {<<>>}
    ELSE LET most == {x \in unsorted : \A y \in unsorted : x[1] >= y[1]}
         IN  UNION {{<<x>> \o rest : rest \in sorted_descending(unsorted \ {x})} : x \in most}

\* sorted(unsorted, key=itemgetter(0)): the orders of the pairs that ascend
\* by priority.  The sort is stable and the pairs come from iterating a
\* set, whose order is arbitrary, so equal priorities may come in any order.
RECURSIVE sorted(_)
sorted(unsorted) ==
    IF unsorted = {} THEN {<<>>}
    ELSE LET least == {x \in unsorted : \A y \in unsorted : x[1] <= y[1]}
         IN  UNION {{<<x>> \o rest : rest \in sorted(unsorted \ {x})} : x \in least}

\* EventBus._sort_listeners: the (priority, listener) pairs of the event,
\* sorted by priority.  Only defined for a key of listeners (the code
\* raises KeyError otherwise).
sort_listeners(st, event_name) ==
    sorted({<<st.priorities[<<event_name, l>>], l>> : l \in st.listeners[event_name]})

\* Subscriber.__init__
subscriber_init(st) ==
    subscribe(subscribe([st EXCEPT !.subscriptions = <<>>],
                        OnStart, "on_start", DefaultPriority),
              OnExit, "on_exit", DefaultPriority)

\* Faulty variant of the on_start loop: the pairs are subscribed but not
\* recorded in __subscriptions.
RECURSIVE on_start_from_unrecorded(_, _)
on_start_from_unrecorded(st, i) ==
    IF i > Len(DeclaredMembers) THEN st
    ELSE LET m == DeclaredMembers[i]
         IN  on_start_from_unrecorded(
                subscribe(st, m.event, m.member, m.priority), i + 1)

\* Faulty variant of the on_start loop: the declared priority is not
\* passed on, so every member gets the default priority.
RECURSIVE on_start_from_default_priority(_, _)
on_start_from_default_priority(st, i) ==
    IF i > Len(DeclaredMembers) THEN st
    ELSE LET m == DeclaredMembers[i]
             s1 == subscribe(st, m.event, m.member, DefaultPriority)
         IN  on_start_from_default_priority(
                [s1 EXCEPT !.subscriptions = Append(@, <<m.event, m.member>>)],
                i + 1)

\* Subscriber.on_start: the loop over the members, from member i on
RECURSIVE on_start_from(_, _)
on_start_from(st, i) ==
    IF i > Len(DeclaredMembers) THEN st
    ELSE LET m == DeclaredMembers[i]
             s1 == subscribe(st, m.event, m.member, m.priority)
         IN  on_start_from(
                [s1 EXCEPT !.subscriptions = Append(@, <<m.event, m.member>>)],
                i + 1)

on_start(st) == on_start_from(st, 1)

\* Subscriber.on_exit: the loop over __subscriptions, from entry i on
RECURSIVE on_exit_from(_, _)
on_exit_from(st, i) ==
    IF i > Len(st.subscriptions) THEN st
    ELSE on_exit_from(
            unsubscribe(st, st.subscriptions[i][1], st.subscriptions[i][2]),
            i + 1)

\* Faulty variant of on_exit: the first recorded pair is skipped.
on_exit_skip_first(st) == on_exit_from(st, 2)

on_exit(st) == on_exit_from(st, 1)

\* The effect of running a callback on the bus and the Subscriber.
HandlerEffect(h, st) ==
    CASE h = "on_start" -> on_start(st)
      [] h = "on_exit" -> on_exit(st)
      [] OTHER -> st

----------------------------------------------------------------------------
(* Dispatch.  Each strategy yields an outcome record:                      *)
(*   st       the state after the call                                     *)
(*   invoked  the callbacks called, in call order                          *)
(*   raised   "" or the class of the exception that reached the caller     *)
(*   ret      the value returned by send_one / send_any                    *)
(*   results  the list returned by broadcast, or (under raised # "") the   *)
(*            list built so far                                            *)
(*   pairs    the list of tuples returned by broadcast_nothrow             *)
(*   log      the records written to the bus logger                        *)

Outcome(st, invoked, raised, ret, results, pairs, log) ==
    [st |-> st, invoked |-> invoked, raised |-> raised, ret |-> ret,
     results |-> results, pairs |-> pairs, log |-> log]

LogHandlerFailure == "exception: Handler failure"
LogNoListeners == "error: No listeners"
LogStarting == "info: Event bus is starting..."
LogExiting == "info: Event bus is exiting..."

\* The sorted snapshots a dispatch of the event may iterate over.
Snapshots(st, event) ==
    IF event_id(event) \in DOMAIN st.listeners THEN sort_listeners(st, event_id(event)) ELSE {<<>>}

\* Faulty variant of the broadcast loop: a failure is logged and the loop
\* goes on to the next listener.
RECURSIVE broadcast_from_swallow(_, _, _, _, _, _)
broadcast_from_swallow(st, order, i, payload, results, invoked) ==
    IF i > Len(order) THEN Outcome(st, invoked, "", None, results, <<>>, <<>>)
    ELSE LET listener == order[i][2]
             result == HandlerResult(listener, payload)
             s1 == HandlerEffect(listener, st)
         IN  broadcast_from_swallow(s1, order, i + 1, payload,
                IF IsError(result) THEN results ELSE Append(results, result),
                Append(invoked, listener))

\* EventBus.broadcast: the for loop from position i of the sorted list
RECURSIVE broadcast_from(_, _, _, _, _, _)
broadcast_from(st, order, i, payload, results, invoked) ==
    IF i > Len(order) THEN Outcome(st, invoked, "", None, results, <<>>, <<>>)
    ELSE LET listener == order[i][2]
             result == HandlerResult(listener, payload)
             s1 == HandlerEffect(listener, st)
         IN  IF IsError(result)
             THEN Outcome(s1, Append(invoked, listener), result.kind, None,
                          results, <<>>, <<LogHandlerFailure>>)
             ELSE broadcast_from(s1, order, i + 1, payload,
                                 Append(results, result), Append(invoked, listener))

\* Faulty variant of broadcast: no test for an unknown event id, so
\* _sort_listeners raises KeyError.
broadcast_unchecked(st, event, payload, order) ==
    IF event_id(event) \notin DOMAIN st.listeners
    THEN Outcome(st, <<>>, "KeyError", None, <<>>, <<>>, <<>>)
    ELSE broadcast_from(st, order, 1, payload, <<>>, <<>>)

broadcast(st, event, payload, order) ==
    IF event_id(event) \notin DOMAIN st.listeners
    THEN Outcome(st, <<>>, "", None, <<>>, <<>>, <<>>)
    ELSE broadcast_from(st, order, 1, payload, <<>>, <<>>)

\* Faulty variant of the broadcast_nothrow loop: the loop ends at the first
\* failure.
RECURSIVE broadcast_nothrow_from_stop(_, _, _, _, _, _)
broadcast_nothrow_from_stop(st, order, i, payload, pairs, invoked) ==
    IF i > Len(order) THEN Outcome(st, invoked, "", None, <<>>, pairs, <<>>)
    ELSE LET listener == order[i][2]
             result == HandlerResult(listener, payload)
             s1 == HandlerEffect(listener, st)
         IN  IF IsError(result)
             THEN Outcome(s1, Append(invoked, listener), "", None, <<>>,
                          Append(pairs, <<result, TRUE>>), <<>>)
             ELSE broadcast_nothrow_from_stop(s1, order, i + 1, payload,
                     Append(pairs, <<result, FALSE>>), Append(invoked, listener))

\* Faulty variant of the broadcast_nothrow loop: the flags the other way
\* round, True for a result and False for an exception.
RECURSIVE broadcast_nothrow_from_flipped(_, _, _, _, _, _)
broadcast_nothrow_from_flipped(st, order, i, payload, pairs, invoked) ==
    IF i > Len(order) THEN Outcome(st, invoked, "", None, <<>>, pairs, <<>>)
    ELSE LET listener == order[i][2]
             result == HandlerResult(listener, payload)
             s1 == HandlerEffect(listener, st)
         IN  broadcast_nothrow_from_flipped(s1, order, i + 1, payload,
                Append(pairs, IF IsError(result) THEN <<result, FALSE>>
                                                 ELSE <<result, TRUE>>),
                Append(invoked, listener))

\* Faulty variant of the broadcast_nothrow loop: a listener that an earlier
\* listener has unsubscribed is skipped.
RECURSIVE broadcast_nothrow_from_live(_, _, _, _, _, _)
broadcast_nothrow_from_live(st, order, i, payload, pairs, invoked) ==
    IF i > Len(order) THEN Outcome(st, invoked, "", None, <<>>, pairs, <<>>)
    ELSE LET listener == order[i][2]
             result == HandlerResult(listener, payload)
             s1 == HandlerEffect(listener, st)
         IN  IF \A k \in DOMAIN st.listeners : listener \notin st.listeners[k]
             THEN broadcast_nothrow_from_live(st, order, i + 1, payload, pairs, invoked)
             ELSE broadcast_nothrow_from_live(s1, order, i + 1, payload,
                    Append(pairs, IF IsError(result) THEN <<result, TRUE>>
                                                     ELSE <<result, FALSE>>),
                    Append(invoked, listener))

\* EventBus.broadcast_nothrow: the for loop from position i
RECURSIVE broadcast_nothrow_from(_, _, _, _, _, _)
broadcast_nothrow_from(st, order, i, payload, pairs, invoked) ==
    IF i > Len(order) THEN Outcome(st, invoked, "", None, <<>>, pairs, <<>>)
    ELSE LET listener == order[i][2]
             result == HandlerResult(listener, payload)
             s1 == HandlerEffect(listener, st)
         IN  broadcast_nothrow_from(s1, order, i + 1, payload,
                Append(pairs, IF IsError(result) THEN <<result, TRUE>>
                                                 ELSE <<result, FALSE>>),
                Append(invoked, listener))

broadcast_nothrow(st, event, payload, order) ==
    IF event_id(event) \notin DOMAIN st.listeners
    THEN Outcome(st, <<>>, "", None, <<>>, <<>>, <<>>)
    ELSE broadcast_nothrow_from(st, order, 1, payload, <<>>, <<>>)

\* Faulty variant of send_one: the listener taken from the end of the
\* sorted list.
send_one_last(st, event, payload, order) ==
    IF event_id(event) \notin DOMAIN st.listeners \/ Len(order) = 0
    THEN Outcome(st, <<>>, "NoListenersError", None, <<>>, <<>>, <<LogNoListeners>>)
    ELSE LET listener == order[Len(order)][2]
             result == HandlerResult(listener, payload)
             s1 == HandlerEffect(listener, st)
         IN  IF IsError(result)
             THEN Outcome(s1, <<listener>>, result.kind, None, <<>>, <<>>, <<>>)
             ELSE Outcome(s1, <<listener>>, "", result, <<>>, <<>>, <<>>)

\* Faulty variant of send_one: only KeyError is caught, so the IndexError
\* of an empty list reaches the caller.
send_one_keyerror_only(st, event, payload, order) ==
    IF event_id(event) \notin DOMAIN st.listeners
    THEN Outcome(st, <<>>, "NoListenersError", None, <<>>, <<>>, <<LogNoListeners>>)
    ELSE IF Len(order) = 0
    THEN Outcome(st, <<>>, "IndexError", None, <<>>, <<>>, <<>>)
    ELSE LET listener == order[1][2]
             result == HandlerResult(listener, payload)
             s1 == HandlerEffect(listener, st)
         IN  IF IsError(result)
             THEN Outcome(s1, <<listener>>, result.kind, None, <<>>, <<>>, <<>>)
             ELSE Outcome(s1, <<listener>>, "", result, <<>>, <<>>, <<>>)

\* EventBus.send_one
send_one(st, event, payload, order) ==
    IF event_id(event) \notin DOMAIN st.listeners \/ Len(order) = 0
    THEN Outcome(st, <<>>, "NoListenersError", None, <<>>, <<>>, <<LogNoListeners>>)
    ELSE LET listener == order[1][2]
             result == HandlerResult(listener, payload)
             s1 == HandlerEffect(listener, st)
         IN  IF IsError(result)
             THEN Outcome(s1, <<listener>>, result.kind, None, <<>>, <<>>, <<>>)
             ELSE Outcome(s1, <<listener>>, "", result, <<>>, <<>>, <<>>)

\* Faulty variant of the send_any loop: "if result:" in place of
\* "if result is not None:", so that 0 counts as no answer.
RECURSIVE send_any_from_truthy(_, _, _, _, _)
send_any_from_truthy(st, order, i, payload, invoked) ==
    IF i > Len(order) THEN Outcome(st, invoked, "", None, <<>>, <<>>, <<>>)
    ELSE LET listener == order[i][2]
             result == HandlerResult(listener, payload)
             s1 == HandlerEffect(listener, st)
         IN  IF IsError(result)
             THEN Outcome(s1, Append(invoked, listener), result.kind, None,
                          <<>>, <<>>, <<LogHandlerFailure>>)
             ELSE IF result # None /\ result # IntVal(0)
             THEN Outcome(s1, Append(invoked, listener), "", result, <<>>, <<>>, <<>>)
             ELSE send_any_from_truthy(s1, order, i + 1, payload, Append(invoked, listener))

\* Faulty variant of the send_any loop: a handler failure propagates without
\* a log record.
RECURSIVE send_any_from_silent(_, _, _, _, _)
send_any_from_silent(st, order, i, payload, invoked) ==
    IF i > Len(order) THEN Outcome(st, invoked, "", None, <<>>, <<>>, <<>>)
    ELSE LET listener == order[i][2]
             result == HandlerResult(listener, payload)
             s1 == HandlerEffect(listener, st)
         IN  IF IsError(result)
             THEN Outcome(s1, Append(invoked, listener), result.kind, None,
                          <<>>, <<>>, <<>>)
             ELSE IF result # None
             THEN Outcome(s1, Append(invoked, listener), "", result, <<>>, <<>>, <<>>)
             ELSE send_any_from_silent(s1, order, i + 1, payload, Append(invoked, listener))

\* EventBus.send_any: the for loop from position i
RECURSIVE send_any_from(_, _, _, _, _)
send_any_from(st, order, i, payload, invoked) ==
    IF i > Len(order) THEN Outcome(st, invoked, "", None, <<>>, <<>>, <<>>)
    ELSE LET listener == order[i][2]
             result == HandlerResult(listener, payload)
             s1 == HandlerEffect(listener, st)
         IN  IF IsError(result)
             THEN Outcome(s1, Append(invoked, listener), result.kind, None,
                          <<>>, <<>>, <<LogHandlerFailure>>)
             ELSE IF result # None
             THEN Outcome(s1, Append(invoked, listener), "", result, <<>>, <<>>, <<>>)
             ELSE send_any_from(s1, order, i + 1, payload, Append(invoked, listener))

send_any(st, event, payload, order) ==
    IF event_id(event) \notin DOMAIN st.listeners
    THEN Outcome(st, <<>>, "", None, <<>>, <<>>, <<>>)
    ELSE send_any_from(st, order, 1, payload, <<>>)

\* EventBus.start
start(st, order) ==
    LET r == broadcast(st, OnStart, None, order)
    IN  [r EXCEPT !.log = <<LogStarting>> \o @]

\* EventBus.stop
stop(st, order) ==
    LET r == broadcast_nothrow(st, OnExit, None, order)
    IN  [r EXCEPT !.log = <<LogExiting>> \o @]

----------------------------------------------------------------------------
(* The state machine.                                                      *)

State == [listeners |-> listeners, priorities |-> priorities,
          subscriptions |-> subscriptions]

\* the record of a call that dispatched nothing
NoCall == [op |-> "init", event |-> "", callback |-> "", priority |-> 0,
           payload |-> None,
           order |-> <<>>,
           pre_listeners |-> <<>>, pre_priorities |-> <<>>,
           invoked |-> <<>>, raised |-> "", ret |-> None,
           results |-> <<>>, pairs |-> <<>>, log |-> <<>>]

\* the record of a dispatch
CallRecord(op, event, payload, order, r) ==
    [op |-> op, event |-> event, callback |-> "", priority |-> 0,
     payload |-> payload,
     order |-> order,
     pre_listeners |-> listeners, pre_priorities |-> priorities,
     invoked |-> r.invoked, raised |-> r.raised, ret |-> r.ret,
     results |-> r.results, pairs |-> r.pairs, log |-> r.log]

\* the record of a subscribe or unsubscribe call
RegistryCall(op, event, callback, priority, raised) ==
    [NoCall EXCEPT !.op = op, !.event = event, !.callback = callback,
                   !.priority = priority,
                   !.pre_listeners = listeners, !.pre_priorities = priorities,
                   !.raised = raised]

\* the pairs user code has subscribed
UserPairs(st) ==
    {ec \in DOMAIN st.priorities : ec[2] \in UserHandlers}

\* EventBus.__init__
Init ==
    /\ listeners = [k \in {event_id(e) : e \in default_events} |-> {}]
    /\ priorities = <<>>
    /\ constructed = FALSE
    /\ subscriptions = <<>>
    /\ call = NoCall

\* The state after a call with outcome r.
Commit(r) ==
    /\ Len(r.st.subscriptions) <= MaxSubscriptions
    /\ listeners' = r.st.listeners
    /\ priorities' = r.st.priorities
    /\ subscriptions' = r.st.subscriptions

\* bus.subscribe(event, callback, priority) by user code
Subscribe(e, h, p) ==
    /\ Cardinality(UserPairs(State) \cup {<<e, h>>}) <= MaxRegistered
    /\ Commit([st |-> subscribe(State, e, h, p)])
    /\ call' = RegistryCall("subscribe", e, h, p, "")
    /\ UNCHANGED constructed

\* bus.unsubscribe(event, callback) by user code
Unsubscribe(e, h) ==
    /\ Commit([st |-> unsubscribe(State, e, h)])
    /\ call' = RegistryCall("unsubscribe", e, h, 0,
                            IF unsubscribe_raises(State, e, h) THEN "KeyError" ELSE "")
    /\ UNCHANGED constructed

\* Subscriber(bus)
Construct ==
    /\ ~constructed
    /\ Commit([st |-> subscriber_init(State)])
    /\ constructed' = TRUE
    /\ call' = [NoCall EXCEPT !.op = "construct"]

\* bus.broadcast(event, payload)
Broadcast(e, payload) ==
    \E order \in Snapshots(State, e) :
        LET r == broadcast(State, e, payload, order)
        IN  /\ Commit(r)
            /\ call' = CallRecord("broadcast", e, payload, order, r)
            /\ UNCHANGED constructed

\* bus.broadcast_nothrow(event, payload)
BroadcastNothrow(e, payload) ==
    \E order \in Snapshots(State, e) :
        LET r == broadcast_nothrow(State, e, payload, order)
        IN  /\ Commit(r)
            /\ call' = CallRecord("broadcast_nothrow", e, payload, order, r)
            /\ UNCHANGED constructed

\* bus.send_one(event, payload)
SendOne(e, payload) ==
    \E order \in Snapshots(State, e) :
        LET r == send_one(State, e, payload, order)
        IN  /\ Commit(r)
            /\ call' = CallRecord("send_one", e, payload, order, r)
            /\ UNCHANGED constructed

\* bus.send_any(event, payload)
SendAny(e, payload) ==
    \E order \in Snapshots(State, e) :
        LET r == send_any(State, e, payload, order)
        IN  /\ Commit(r)
            /\ call' = CallRecord("send_any", e, payload, order, r)
            /\ UNCHANGED constructed

\* bus.start()
Start ==
    \E order \in Snapshots(State, OnStart) :
        LET r == start(State, order)
        IN  /\ Commit(r)
            /\ call' = CallRecord("start", OnStart, None, order, r)
            /\ UNCHANGED constructed

\* bus.stop()
Stop ==
    \E order \in Snapshots(State, OnExit) :
        LET r == stop(State, order)
        IN  /\ Commit(r)
            /\ call' = CallRecord("stop", OnExit, None, order, r)
            /\ UNCHANGED constructed

Next ==
    \/ \E e \in SubscribedEvents :
          \E h \in UserHandlersOf(e), p \in Priorities : Subscribe(e, h, p)
    \/ \E e \in SubscribedEvents : \E h \in UserHandlersOf(e) : Unsubscribe(e, h)
    \/ Construct
    \/ \E e \in Events : \E payload \in PayloadsOf(e) : Broadcast(e, payload)
    \/ \E e \in Events : \E payload \in PayloadsOf(e) : BroadcastNothrow(e, payload)
    \/ \E e \in Events : \E payload \in PayloadsOf(e) : SendOne(e, payload)
    \/ \E e \in Events : \E payload \in PayloadsOf(e) : SendAny(e, payload)
    \/ Start
    \/ Stop

Spec == Init /\ [][Next]_vars

----------------------------------------------------------------------------
(* start(); stop() cycles: any calls first, then start() and stop() in    *)
(* turn with nothing in between.                                           *)

\* no start() or stop() has been called yet
InSetup == call.op \notin {"start", "stop"}

SetupSubscribe ==
    /\ InSetup
    /\ \E e \in SubscribedEvents :
          \E h \in UserHandlersOf(e), p \in Priorities : Subscribe(e, h, p)

SetupUnsubscribe ==
    /\ InSetup
    /\ \E e \in SubscribedEvents : \E h \in UserHandlersOf(e) : Unsubscribe(e, h)

SetupConstruct == InSetup /\ Construct

\* an event fired by hand, on-start and on-exit among them
SetupBroadcast ==
    /\ InSetup
    /\ \E e \in Events : \E payload \in PayloadsOf(e) : Broadcast(e, payload)

CycleStart == call.op # "start" /\ Start

CycleStop == call.op = "start" /\ Stop

NextCycles ==
    \/ SetupSubscribe
    \/ SetupUnsubscribe
    \/ SetupConstruct
    \/ SetupBroadcast
    \/ CycleStart
    \/ CycleStop

SpecCycles == Init /\ [][NextCycles]_vars

----------------------------------------------------------------------------
(* What the last call saw and did.                                         *)

DispatchOps == {"broadcast", "broadcast_nothrow", "send_one", "send_any",
                "start", "stop"}

\* the handlers registered for the dispatched event when the call began
PreHandlers ==
    IF call.event \in DOMAIN call.pre_listeners
    THEN call.pre_listeners[call.event] ELSE {}

\* the priority such a handler had when the call began
PrePriority(h) == call.pre_priorities[<<call.event, h>>]

\* what the i-th invoked handler returned or raised
InvokedResult(i) == HandlerResult(call.invoked[i], call.payload)

\* the positions at which h was invoked
Positions(h) == {i \in 1..Len(call.invoked) : call.invoked[i] = h}

\* the Subscriber's methods found in the registry
Residual(ls, methods) ==
    {ec \in (DOMAIN ls) \X methods : ec[2] \in ls[ec[1]]}

----------------------------------------------------------------------------
(* Claims.                                                                 *)

\* C1: for two handlers registered for the dispatched event when a dispatch
\* (broadcast, broadcast_nothrow, send_any, send_one, start, stop) begins,
\* with priorities p1 < p2, every invocation of the p2 handler in that
\* dispatch comes after an invocation of the p1 handler.
C1_PriorityOrder ==
    call.op \in DispatchOps =>
        \A h1, h2 \in PreHandlers :
            PrePriority(h1) < PrePriority(h2) =>
                \A j \in Positions(h2) : \E i \in Positions(h1) : i < j

\* C1 witness: a send_any that went past a handler of lower priority value
\* to one of higher priority value.
C1_Witness ==
    /\ call.op = "send_any"
    /\ Len(call.invoked) >= 2
    /\ PrePriority(call.invoked[1]) < PrePriority(call.invoked[2])

\* C2: in broadcast and start(), a handler that raises is the last handler
\* invoked, its exception is the one that reaches the caller, and no
\* handler of a later priority is invoked; without a raising handler the
\* call returns one result per handler.
C2_BroadcastFailFast ==
    call.op \in {"broadcast", "start"} =>
        /\ \A i \in 1..Len(call.invoked) :
              IsError(InvokedResult(i)) =>
                 /\ i = Len(call.invoked)
                 /\ call.raised = InvokedResult(i).kind
                 /\ \A h \in PreHandlers :
                       PrePriority(h) > PrePriority(call.invoked[i])
                          => Positions(h) = {}
        /\ call.raised = "" =>
              /\ \A h \in PreHandlers : Cardinality(Positions(h)) = 1
              /\ Len(call.results) = Cardinality(PreHandlers)

\* C2 witness: a broadcast in which the first handler raised and a handler
\* of later priority was left out.
C2_Witness ==
    /\ call.op = "broadcast"
    /\ call.raised = "RuntimeError"
    /\ Len(call.invoked) = 1
    /\ \E h \in PreHandlers : PrePriority(h) > PrePriority(call.invoked[1])

\* C3: broadcast_nothrow and stop() raise nothing; every handler registered
\* for the event when the call began is invoked exactly once, in ascending
\* priority, and the returned list has one entry per handler, the i-th
\* entry being the outcome of the i-th handler invoked.
C3_NothrowRunsAll ==
    call.op \in {"broadcast_nothrow", "stop"} =>
        /\ call.raised = ""
        /\ \A h \in PreHandlers : Cardinality(Positions(h)) = 1
        /\ Len(call.invoked) = Cardinality(PreHandlers)
        /\ Len(call.pairs) = Cardinality(PreHandlers)
        /\ \A i, j \in 1..Len(call.invoked) :
              i < j => PrePriority(call.invoked[i]) <= PrePriority(call.invoked[j])
        /\ \A i \in 1..Len(call.pairs) : call.pairs[i][1] = InvokedResult(i)

\* C3 witness: a stop() in which a handler raised and handlers after it
\* still ran.
C3_Witness ==
    /\ call.op = "stop"
    /\ Len(call.invoked) >= 3
    /\ IsError(InvokedResult(1))
    /\ call.raised = ""

\* C4: each entry of the list broadcast_nothrow returns is (result, false)
\* for a handler that returned and (error, true) for a handler that raised.
C4_PairsValueIsError ==
    call.op \in {"broadcast_nothrow", "stop"} =>
        /\ Len(call.pairs) = Len(call.invoked)
        /\ \A i \in 1..Len(call.pairs) :
              call.pairs[i] = <<InvokedResult(i), IsError(InvokedResult(i))>>

\* C4 witness: a broadcast_nothrow that returned an error entry and a
\* result entry.
C4_Witness ==
    /\ call.op = "broadcast_nothrow"
    /\ \E i, j \in 1..Len(call.pairs) :
          /\ call.pairs[i] = <<Exc("RuntimeError"), TRUE>>
          /\ call.pairs[j] = <<IntVal(2), FALSE>>

\* C5: as the docstring of broadcast_nothrow has it, the second element of
\* each returned tuple is True if the handler raised no exception and
\* False if it raised one.
C5_DocstringFlag ==
    call.op \in {"broadcast_nothrow", "stop"} =>
        \A i \in 1..Len(call.pairs) :
            call.pairs[i][2] = ~IsError(InvokedResult(i))

\* C6: send_one on an event with no registered handler (unknown event id,
\* lifecycle event with an empty set, or every handler unsubscribed) raises
\* NoListenersError and invokes no handler.
C6_SendOneNoListeners ==
    (call.op = "send_one" /\ PreHandlers = {}) =>
        /\ call.raised = "NoListenersError"
        /\ call.invoked = <<>>

\* C6 witness: send_one on a test event whose handlers were all
\* unsubscribed (the key is there, the set is empty).
C6_Witness ==
    /\ call.op = "send_one"
    /\ call.event = TestEvent
    /\ TestEvent \in DOMAIN call.pre_listeners
    /\ call.pre_listeners[TestEvent] = {}
    /\ call.raised = "NoListenersError"

\* C7: send_one on an event with handlers invokes exactly one handler, one
\* of the least priority value among those registered, and its outcome is
\* the outcome of the call: its result is returned or its exception raised.
C7_SendOneHighest ==
    (call.op = "send_one" /\ PreHandlers # {}) =>
        /\ Len(call.invoked) = 1
        /\ call.invoked[1] \in PreHandlers
        /\ \A h \in PreHandlers : PrePriority(call.invoked[1]) <= PrePriority(h)
        /\ IF IsError(InvokedResult(1))
           THEN call.raised = InvokedResult(1).kind
           ELSE call.raised = "" /\ call.ret = InvokedResult(1)

\* C7 witness: send_one with two handlers of different priority returned
\* the result of the one invoked.
C7_Witness ==
    /\ call.op = "send_one"
    /\ \E h1, h2 \in PreHandlers : PrePriority(h1) < PrePriority(h2)
    /\ call.ret = IntVal(2)

\* C8: a send_any that returns has invoked handlers in ascending priority;
\* every handler but the last invoked returned None; a non-None return value
\* is the result of the last handler invoked and every handler left out has
\* a priority value at least as large; a None return value means every
\* registered handler was invoked and returned None.
C8_SendAnyFirstNonNull ==
    (call.op = "send_any" /\ call.raised = "") =>
        /\ \A h \in PreHandlers : Cardinality(Positions(h)) <= 1
        /\ \A i \in 1..Len(call.invoked) : call.invoked[i] \in PreHandlers
        /\ \A i, j \in 1..Len(call.invoked) :
              i < j => PrePriority(call.invoked[i]) <= PrePriority(call.invoked[j])
        /\ \A i \in 1..(Len(call.invoked) - 1) : InvokedResult(i) = None
        /\ IF call.ret # None
           THEN /\ Len(call.invoked) >= 1
                /\ call.ret = InvokedResult(Len(call.invoked))
                /\ \A h \in PreHandlers :
                      Positions(h) = {} =>
                         PrePriority(h) >= PrePriority(call.invoked[Len(call.invoked)])
           ELSE /\ \A h \in PreHandlers : Cardinality(Positions(h)) = 1
                /\ \A i \in 1..Len(call.invoked) : InvokedResult(i) = None

\* C8 witness: a send_any that passed a handler returning None, returned the
\* result of the next one and left a third handler out.
C8_Witness ==
    /\ call.op = "send_any"
    /\ Len(call.invoked) = 2
    /\ InvokedResult(1) = None
    /\ call.ret # None
    /\ Cardinality(PreHandlers) = 3

\* C9: broadcast, broadcast_nothrow and send_any (and start, stop) never
\* raise NoListenersError; on an event with no registered handler they
\* raise nothing, invoke nothing and return an empty list, or None.
C9_NoErrorWithoutListeners ==
    call.op \in {"broadcast", "broadcast_nothrow", "send_any", "start", "stop"} =>
        /\ call.raised # "NoListenersError"
        /\ PreHandlers = {} =>
              /\ call.raised = ""
              /\ call.invoked = <<>>
              /\ call.results = <<>>
              /\ call.pairs = <<>>
              /\ call.ret = None

\* C9 witness: a broadcast of an event id the registry has never seen.
C9_Witness ==
    /\ call.op = "broadcast"
    /\ call.event \notin DOMAIN call.pre_listeners
    /\ call.raised = ""

\* C10 as stated: when a Subscriber has been constructed and the bus runs
\* start() and then stop(), no method of the Subscriber is left in the
\* registry.
C10_NoResidualAtAll ==
    [][(constructed /\ call.op = "start" /\ call'.op = "stop")
          => Residual(listeners', SubscriberMethods) = {}]_vars

\* C10 amended: after a stop() on a bus with a Subscriber, none of the
\* declared handler methods the Subscriber bound on on-start is left in
\* the registry; its own on_start and on_exit, subscribed at construction,
\* are still there.
C10_NoDeclaredResidual ==
    (constructed /\ call.op = "stop") =>
        /\ Residual(listeners, DeclaredMethods) = {}
        /\ \A ec \in DOMAIN priorities : ec[2] \notin DeclaredMethods
        /\ Residual(listeners, LifecycleMethods)
              = {<<OnStart, "on_start">>, <<OnExit, "on_exit">>}

\* C10 witness: a stop() that began with the declared methods bound twice
\* over (two starts) and registered.
C10_Witness ==
    /\ constructed
    /\ call.op = "stop"
    /\ Len(subscriptions) = 2 * Len(DeclaredMembers)
    /\ Residual(call.pre_listeners, DeclaredMethods) # {}

----------------------------------------------------------------------------
(* Registry comparison.                                                    *)

\* the handler set of an event, empty for an event id that is no key
HandlersAt(ls, e) == IF e \in DOMAIN ls THEN ls[e] ELSE {}

\* the same subscriptions: the same priority map and the same handler set
\* for every event (a key with an empty set counts as no key)
SameSubscriptions(ls1, pr1, ls2, pr2) ==
    /\ pr1 = pr2
    /\ \A e \in Events : HandlersAt(ls1, e) = HandlersAt(ls2, e)

\* a priority map without the pairs of the given callbacks
WithoutCallbacks(pr, callbacks) ==
    [ec \in {x \in DOMAIN pr : x[2] \notin callbacks} |-> pr[ec]]

\* C11 as stated: the subscriptions after the stop() of a start(); stop()
\* cycle are those from before its start(), so that after any number of
\* cycles they are those from before the first start().
C11_CycleRestores ==
    [][(constructed /\ call.op = "start" /\ call'.op = "stop")
          => SameSubscriptions(listeners', priorities',
                               call.pre_listeners, call.pre_priorities)]_vars

\* C11 amended: the subscriptions after the stop() of a cycle are those
\* from before its start() less the pairs of the Subscriber's declared
\* methods; every other pair is there with its priority and none is added.
\* They are those from before the start() when no declared pair was
\* subscribed then, as is the case after every stop().
C11_CycleRemovesDeclared ==
    [][(constructed /\ call.op = "start" /\ call'.op = "stop")
          => /\ priorities' = WithoutCallbacks(call.pre_priorities, DeclaredMethods)
             /\ \A e \in Events :
                   HandlersAt(listeners', e)
                      = HandlersAt(call.pre_listeners, e) \ DeclaredMethods
             /\ \A ec \in DOMAIN priorities' : ec[2] \notin DeclaredMethods]_vars

\* C11 witness: a stop() after on_start has run twice, with a user callback
\* subscribed next to the declared methods when it began.
C11_Witness ==
    /\ constructed
    /\ call.op = "stop"
    /\ Len(subscriptions) = 2 * Len(DeclaredMembers)
    /\ \E ec \in DOMAIN call.pre_priorities : ec[2] \in DeclaredMethods
    /\ \E ec \in DOMAIN priorities : ec[2] \in UserHandlers

----------------------------------------------------------------------------
(* The Subscriber's declared methods in the registry.                      *)

\* the callbacks a call invoked
InvokedSet(c) == {c.invoked[i] : i \in 1..Len(c.invoked)}

\* the registered pairs of declared methods
DeclaredPairs(pr) == {ec \in DOMAIN pr : ec[2] \in DeclaredMethods}

\* every declared method is subscribed to its event at its priority
AllDeclaredBound(ls, pr) ==
    \A i \in 1..Len(DeclaredMembers) :
        LET m == DeclaredMembers[i]
        IN  /\ m.member \in HandlersAt(ls, m.event)
            /\ <<m.event, m.member>> \in DOMAIN pr
            /\ pr[<<m.event, m.member>>] = m.priority

\* what Subscriber.__init__ leaves of the Subscriber in the registry: its
\* on_start and on_exit at priority 50 and no declared method
OnlyLifecycleBound(ls, pr) ==
    /\ DeclaredPairs(pr) = {}
    /\ Residual(ls, SubscriberMethods)
          = {<<OnStart, "on_start">>, <<OnExit, "on_exit">>}
    /\ pr[<<OnStart, "on_start">>] = DefaultPriority
    /\ pr[<<OnExit, "on_exit">>] = DefaultPriority

\* the declared methods subscribed to the event in a priority map
DeclaredFor(pr, e) == {ec[2] : ec \in {x \in DeclaredPairs(pr) : x[1] = e}}

\* C12 as stated: construction subscribes only on_start and on_exit, at
\* priority 50; after start() has dispatched on-start every declared method
\* is subscribed to its event at its priority; and send_one on the event of
\* a subscribed declared method invokes that method.
C12_BoundOnceOnStartDispatched ==
    [][/\ call'.op = "construct" => OnlyLifecycleBound(listeners', priorities')
       /\ (constructed /\ call'.op = "start")
             => AllDeclaredBound(listeners', priorities')
       /\ call'.op = "send_one"
             => \A m \in DeclaredFor(priorities, call'.event) :
                   call'.invoked = <<m>>]_vars

\* C12 amended: construction subscribes only on_start and on_exit, at
\* priority 50; a declared method enters the registry only in a dispatch
\* that invokes the Subscriber's on_start; after a dispatch that invoked
\* on_start every declared method is subscribed to its event at its
\* priority; and send_one on the event of a subscribed declared method
\* invokes that method, and gives its outcome, when every other handler of
\* the event has a greater priority value.
C12_BoundOnceOnStartInvoked ==
    [][/\ call'.op = "construct" => OnlyLifecycleBound(listeners', priorities')
       /\ ~(DeclaredPairs(priorities') \subseteq DeclaredPairs(priorities))
             => "on_start" \in InvokedSet(call')
       /\ "on_start" \in InvokedSet(call')
             => AllDeclaredBound(listeners', priorities')
       /\ call'.op = "send_one"
             => \A m \in DeclaredFor(priorities, call'.event) :
                   (\A h \in HandlersAt(listeners, call'.event) \ {m} :
                       priorities[<<call'.event, h>>]
                          > priorities[<<call'.event, m>>])
                   => /\ call'.invoked = <<m>>
                      /\ IF IsError(HandlerResult(m, call'.payload))
                         THEN call'.raised = HandlerResult(m, call'.payload).kind
                         ELSE call'.ret = HandlerResult(m, call'.payload)]_vars

\* C12 witness: after start(), send_one on the test event reached the
\* declared method past a user callback of greater priority value.
C12_Witness ==
    /\ call.op = "send_one"
    /\ call.event = TestEvent
    /\ call.invoked = <<"on_test_event">>
    /\ call.ret = IntVal(4)
    /\ \E h \in PreHandlers : h \in UserHandlers

\* ---------------------------------------------------------------------
\* C13
\* ---------------------------------------------------------------------

\* the pair a subscribe or unsubscribe call was given was registered before it
WasRegistered(c) == c.callback \in HandlersAt(c.pre_listeners, c.event)

\* the priority map without the entry of one key
WithoutKey(pr, key) == [k \in DOMAIN pr \ {key} |-> pr[k]]

\* C13: unsubscribe(event, handler) raises no error; for a pair that is not
\* registered (unknown event id, or a known event whose set does not hold the
\* handler) it leaves every handler set and the priority map as they were;
\* for a registered pair it removes that handler from that event's set and
\* that pair's priority record, and changes nothing else.
C13_UnsubscribeFrame ==
    [][call'.op = "unsubscribe" =>
        LET e == call'.event
            h == call'.callback
        IN  /\ call'.raised = ""
            /\ subscriptions' = subscriptions
            /\ constructed' = constructed
            /\ IF e \in DOMAIN listeners /\ h \in listeners[e]
               THEN /\ DOMAIN listeners' = DOMAIN listeners
                    /\ listeners'[e] = listeners[e] \ {h}
                    /\ \A d \in DOMAIN listeners \ {e} : listeners'[d] = listeners[d]
                    /\ <<e, h>> \in DOMAIN priorities
                    /\ priorities' = WithoutKey(priorities, <<e, h>>)
               ELSE /\ listeners' = listeners
                    /\ priorities' = priorities]_vars

\* an unsubscribe removed a registered pair while another handler of the same
\* event stayed
C13_Witness ==
    /\ call.op = "unsubscribe"
    /\ WasRegistered(call)
    /\ call.callback \notin listeners[call.event]
    /\ listeners[call.event] # {}
    /\ <<call.event, call.callback>> \notin DOMAIN priorities

\* ---------------------------------------------------------------------
\* C14
\* ---------------------------------------------------------------------

\* C14: subscribing a handler to an event it is already subscribed to is
\* idempotent: every handler set stays as it was and the priority map keeps
\* one record for the pair and every other record unchanged; every dispatch
\* invokes a handler at most once; and after one unsubscribe the handler is
\* in no set of that event and has no priority record for it.
C14_DuplicateSubscribeIdempotent ==
    [][LET e == call'.event
           h == call'.callback
       IN  /\ (call'.op = "subscribe" /\ h \in HandlersAt(listeners, e)) =>
                /\ listeners' = listeners
                /\ DOMAIN priorities' = DOMAIN priorities
                /\ \A k \in DOMAIN priorities \ {<<e, h>>} :
                        priorities'[k] = priorities[k]
           /\ call'.op \in DispatchOps =>
                \A i, j \in 1..Len(call'.invoked) :
                    call'.invoked[i] = call'.invoked[j] => i = j
           /\ call'.op = "unsubscribe" =>
                /\ h \notin HandlersAt(listeners', e)
                /\ <<e, h>> \notin DOMAIN priorities']_vars

\* a handler was subscribed again, at the priority it had, to an event that
\* has another handler too
C14_Witness ==
    /\ call.op = "subscribe"
    /\ WasRegistered(call)
    /\ call.pre_priorities[<<call.event, call.callback>>]
            = priorities[<<call.event, call.callback>>]
    /\ Cardinality(listeners[call.event]) >= 2

\* ---------------------------------------------------------------------
\* C15
\* ---------------------------------------------------------------------

\* the errors handlers raise
HandlerErrors == {"RuntimeError", "TypeError"}

\* the call ended in an error raised by a handler
HandlerRaised == call.raised \in HandlerErrors

\* the last record the call wrote to the log is a handler-failure record
FailureLoggedLast ==
    /\ call.log # <<>>
    /\ call.log[Len(call.log)] = LogHandlerFailure

\* the call wrote no handler-failure record
NoFailureLogged == \A i \in 1..Len(call.log) : call.log[i] # LogHandlerFailure

\* the tolerant dispatch returned the error of every handler that raised
ErrorsReturned ==
    /\ call.raised = ""
    /\ Len(call.pairs) = Len(call.invoked)
    /\ \A i \in 1..Len(call.invoked) :
            IsError(InvokedResult(i)) => call.pairs[i][1] = InvokedResult(i)

\* C15 as stated: when a handler raises inside broadcast, send_any or
\* send_one, a handler-failure record is logged before the error reaches the
\* caller; broadcast_nothrow logs no handler-failure record and returns the
\* error instead.
C15_FailureLoggedByAllThree ==
    /\ (call.op \in {"broadcast", "start", "send_any", "send_one"} /\ HandlerRaised)
            => FailureLoggedLast
    /\ call.op \in {"broadcast_nothrow", "stop"}
            => NoFailureLogged /\ ErrorsReturned

\* C15 amended: when a handler raises inside broadcast or send_any, a
\* handler-failure record is the last thing logged before the error reaches
\* the caller; send_one lets the handler's error reach the caller without
\* any log record; broadcast_nothrow logs no handler-failure record and
\* returns the error instead.
C15_FailureLoggedByLoops ==
    /\ (call.op \in {"broadcast", "start", "send_any"} /\ HandlerRaised)
            => FailureLoggedLast
    /\ (call.op = "send_one" /\ HandlerRaised) => call.log = <<>>
    /\ call.op \in {"broadcast_nothrow", "stop"}
            => NoFailureLogged /\ ErrorsReturned

\* send_any met a handler that raised after one that returned None
C15_Witness ==
    /\ call.op = "send_any"
    /\ HandlerRaised
    /\ Len(call.invoked) = 2
    /\ call.log = <<LogHandlerFailure>>

\* ---------------------------------------------------------------------
\* C16
\* ---------------------------------------------------------------------
(* Two event classes with one name.  User code subscribes "ident" to       *)
(* TestEvent only and "none" and "raiser" to TestEventTwin only, so that   *)
(* the handlers found in a bucket or invoked by a dispatch tell the class  *)
(* they were subscribed to.                                                *)

TwinEvents == {TestEvent, TestEventTwin}

TwinHandlersOf(event) ==
    IF event = TestEvent THEN {"ident"} ELSE {"none", "raiser"}

NextTwins ==
    \/ \E e \in TwinEvents :
          \E h \in TwinHandlersOf(e), p \in Priorities : Subscribe(e, h, p)
    \/ \E e \in TwinEvents : \E h \in TwinHandlersOf(e) : Unsubscribe(e, h)
    \/ \E e \in TwinEvents : \E payload \in PayloadsOf(e) : Broadcast(e, payload)
    \/ \E e \in TwinEvents : \E payload \in PayloadsOf(e) : BroadcastNothrow(e, payload)
    \/ \E e \in TwinEvents : \E payload \in PayloadsOf(e) : SendOne(e, payload)
    \/ \E e \in TwinEvents : \E payload \in PayloadsOf(e) : SendAny(e, payload)

SpecTwins == Init /\ [][NextTwins]_vars

\* C16: every event class has an identifier distinct from that of every
\* other class, also when the names are the same; no bucket of the registry
\* holds handlers subscribed to two different classes; and a dispatch of one
\* class invokes only handlers subscribed to that class.
C16_DistinctIdsDistinctBuckets ==
    /\ \A a, b \in Events \cup TwinEvents : a # b => event_id(a) # event_id(b)
    /\ \A k \in DOMAIN listeners :
          \A a, b \in TwinEvents :
              (a # b /\ listeners[k] \cap TwinHandlersOf(a) # {})
                  => listeners[k] \cap TwinHandlersOf(b) = {}
    /\ call.op \in DispatchOps =>
          \A i \in 1..Len(call.invoked) : call.invoked[i] \in TwinHandlersOf(call.event)

\* both classes of the one name had handlers when one of them was broadcast,
\* and the broadcast invoked a handler
C16_Witness ==
    /\ EventName(TestEvent) = EventName(TestEventTwin)
    /\ call.op = "broadcast"
    /\ call.event = TestEventTwin
    /\ call.invoked # <<>>
    /\ HandlersAt(call.pre_listeners, event_id(TestEvent)) # {}
    /\ HandlersAt(call.pre_listeners, event_id(TestEventTwin)) # {}

\* ---------------------------------------------------------------------
\* C17
\* ---------------------------------------------------------------------

\* the identifiers of the three lifecycle events
LifecycleIds == {event_id(e) : e \in default_events}

\* C17: the identifiers of on-start, on-started and on-exit are keys of the
\* registry in every state; an identifier that is a key stays a key after
\* every call, unsubscribe included (a bucket is emptied, not deleted); and
\* start() and stop() find the key of their event, never the unknown-event
\* path.
C17_KeysStay ==
    [][/\ LifecycleIds \subseteq DOMAIN listeners
       /\ LifecycleIds \subseteq DOMAIN listeners'
       /\ DOMAIN listeners \subseteq DOMAIN listeners'
       /\ call'.op \in {"start", "stop"} =>
              event_id(call'.event) \in DOMAIN listeners]_vars

\* an unsubscribe took the last handler of an event that is not a lifecycle
\* event, and the event is still a key, with an empty bucket
C17_Witness ==
    /\ call.op = "unsubscribe"
    /\ WasRegistered(call)
    /\ event_id(call.event) \notin LifecycleIds
    /\ event_id(call.event) \in DOMAIN listeners
    /\ listeners[event_id(call.event)] = {}

\* ---------------------------------------------------------------------
\* C18
\* ---------------------------------------------------------------------

\* the handlers of the dispatched event after the call
PostHandlers == HandlersAt(listeners, event_id(call.event))

\* the listeners of the sorted list the call iterated over, in its order
OrderListeners == [i \in 1..Len(call.order) |-> call.order[i][2]]

\* C18: a dispatch works on the handler list as it was when the dispatch
\* began.  The handlers invoked are the first ones of the list sorted at the
\* start: none that an earlier handler subscribed during the dispatch (the
\* start() that binds a method declared for OnStart does not run it), and
\* broadcast_nothrow invokes every handler of that list, also one that an
\* earlier handler unsubscribed (the stop() that unbinds a method declared
\* for OnExit with priority 60 still runs it).
C18_DispatchOnSnapshot ==
    call.op \in DispatchOps =>
        /\ Len(call.invoked) <= Len(call.order)
        /\ call.invoked = SubSeq(OrderListeners, 1, Len(call.invoked))
        /\ \A i \in 1..Len(call.invoked) : call.invoked[i] \in PreHandlers
        /\ call.op \in {"broadcast_nothrow", "stop"} =>
                \A h \in PreHandlers : Positions(h) # {}
        /\ (call.op = "start" /\ "declared_start" \notin PreHandlers) =>
                Positions("declared_start") = {}
        /\ (call.op = "stop" /\ "declared_exit" \in PreHandlers) =>
                Positions("declared_exit") # {}

\* stop() invoked on_exit, which unsubscribed declared_exit, and invoked
\* declared_exit after it
C18_Witness ==
    /\ call.op = "stop"
    /\ "declared_exit" \in PreHandlers
    /\ "declared_exit" \notin PostHandlers
    /\ \E i, j \in 1..Len(call.invoked) :
            /\ i < j
            /\ call.invoked[i] = "on_exit"
            /\ call.invoked[j] = "declared_exit"

\* ---------------------------------------------------------------------
\* C19
\* ---------------------------------------------------------------------

\* the priority map has an entry for exactly the (event id, handler) pairs
\* of the handler sets
RegistryConsistent(st) ==
    DOMAIN st.priorities =
        {kh \in (DOMAIN st.listeners) \X Handlers : kh[2] \in st.listeners[kh[1]]}

\* C19: in every state reached by subscribe, unsubscribe, dispatch, start
\* and stop calls, and in the state a handler leaves behind when it mutates
\* the registry during a dispatch, the priority map has an entry for (event
\* id, handler) exactly when the handler is in the handler set of that event
\* id; so sorting the handlers of a known event finds every priority, and
\* unsubscribe finds the priority record it deletes.
C19_PrioritiesMatchHandlers ==
    /\ RegistryConsistent(State)
    /\ \A h \in Handlers : RegistryConsistent(HandlerEffect(h, State))
    /\ \A k \in DOMAIN listeners :
          \A h \in listeners[k] : <<k, h>> \in DOMAIN priorities
    /\ call.raised # "KeyError"

\* start() has run on_start, which subscribed the declared methods during
\* the dispatch, next to a handler of user code
C19_Witness ==
    /\ call.op = "start"
    /\ Positions("on_start") # {}
    /\ AllDeclaredBound(listeners, priorities)
    /\ UserPairs(State) # {}
    /\ call.pre_priorities # priorities

\* ---------------------------------------------------------------------
\* C20
\* ---------------------------------------------------------------------

\* C20: subscribe(event, handler, priority) for a pair that is already
\* registered replaces the stored priority and adds no second entry: after
\* the call the priority map has one record for the pair, with the priority
\* of this call, every other record and every handler set are as before;
\* and a dispatch of the event that follows sorts the handler by the
\* priority of this most recent subscribe call.
C20_ResubscribeReplacesPriority ==
    [][/\ call'.op = "subscribe" =>
            LET id == event_id(call'.event)
                k == <<id, call'.callback>>
            IN  /\ priorities'[k] = call'.priority
                /\ DOMAIN priorities' = DOMAIN priorities \cup {k}
                /\ \A o \in DOMAIN priorities \ {k} : priorities'[o] = priorities[o]
                /\ listeners'[id] = HandlersAt(listeners, id) \cup {call'.callback}
                /\ \A d \in DOMAIN listeners \ {id} : listeners'[d] = listeners[d]
       /\ (call.op = "subscribe" /\ call'.op \in DispatchOps /\ call'.event = call.event) =>
            /\ \E i \in 1..Len(call'.order) : call'.order[i][2] = call.callback
            /\ \A i \in 1..Len(call'.order) :
                    call'.order[i][2] = call.callback => call'.order[i][1] = call.priority
            /\ \A i, j \in 1..Len(call'.order) :
                    i < j => call'.order[i][1] <= call'.order[j][1]
            /\ \A i \in 1..Len(call'.invoked) : call'.invoked[i] = call'.order[i][2]]_vars

\* a handler registered at priority 40, ahead of a handler at 50, has been
\* subscribed again at 60
C20_Witness ==
    /\ call.op = "subscribe"
    /\ WasRegistered(call)
    /\ call.pre_priorities[<<event_id(call.event), call.callback>>] = 40
    /\ call.priority = 60
    /\ priorities[<<event_id(call.event), call.callback>>] = 60
    /\ \E h \in listeners[event_id(call.event)] :
            priorities[<<event_id(call.event), h>>] = DefaultPriority

====
